---- MODULE Spec2Model ----
(***************************************************************************)
(* The turn controller of the JIRA / Azure DevOps assistants               *)
(* (src/src/agents/jira_assistant.py, azure_devops_assistant.py): a        *)
(* StateGraph over AgentState with the nodes guard_input, model, tools and *)
(* block_unsafe_content.  One session (one checkpoint thread) is modelled; *)
(* every node run is one superstep of the graph runtime.                   *)
(***************************************************************************)
EXTENDS Naturals, Integers, Sequences, FiniteSets, TLC

\* ---------------------------------------------------------------- bounds
\* largest recursion limit a caller passes with a turn
MaxLimit == 4
\* largest number of tool-call requests in one model draft
MaxCalls == 2
\* a further turn is started only while the history is shorter than this
MaxHistory == 3

\* ------------------------------------------------------------- constants
\* variants of the threshold: an off-by-one either way
StepThreshold_One == 2 - 1
StepThreshold_Three == 2 + 1

\* acall_model refuses to dispatch tools below this many remaining steps
StepThreshold == 2

NoId == 0
END == "__end__"

FlaggedPrefix == "This conversation was flagged for unsafe content: "
NeedMoreSteps == <<"Sorry, need more steps to process this request.">>

ToolNames == {"get_all_projects"}
UserTexts == {<<"list all projects">>}
DraftTexts == {<<"Here are the projects.">>}
\* the text a tool returns when it caught an exception
ErrorText == "Error retrieving projects"
ToolOutputs == {"[{\"id\": \"1\"}]", ErrorText}
Pending == "<pending>"

\* ------------------------------------------------------ safety classifier
SAFE == "safe"
UNSAFE == "unsafe"
ERROR == "error"

LlamaGuardOutput(assessment, categories) ==
    [safety_assessment |-> assessment, unsafe_categories |-> categories]

NoVerdict == LlamaGuardOutput("none", <<>>)

\* the verdicts LlamaGuard.ainvoke can return
Verdicts ==
    { LlamaGuardOutput(SAFE, <<>>),
      LlamaGuardOutput(ERROR, <<>>),
      LlamaGuardOutput(UNSAFE, <<"Violent Crimes">>),
      LlamaGuardOutput(UNSAFE, <<"Hate", "Privacy">>) }

\* --------------------------------------------------------------- messages
Message(type, id, content, tool_calls, tool_call_id) ==
    [type |-> type, id |-> id, content |-> content,
     tool_calls |-> tool_calls, tool_call_id |-> tool_call_id]

HumanMessage(content) == Message("human", NoId, content, <<>>, <<>>)
AIMessage(id, content, tool_calls) == Message("ai", id, content, tool_calls, <<>>)
ToolMessage(content, tool_call_id) == Message("tool", NoId, <<content>>, <<>>, tool_call_id)

SystemMessage(content) == Message("system", NoId, content, <<>>, <<>>)

NoDraft == AIMessage(NoId, <<>>, <<>>)

\* ", ".join(items), as a sequence of text pieces
RECURSIVE Join(_)
Join(items) ==
    IF items = <<>> THEN <<>>
    ELSE IF Len(items) = 1 THEN <<items[1]>>
    ELSE <<items[1], ", ">> \o Join(Tail(items))

format_safety_message(safety_output) ==
    AIMessage(NoId, <<FlaggedPrefix>> \o Join(safety_output.unsafe_categories), <<>>)

\* variant: a messages key without the reducer, each update overwrites the list
RECURSIVE add_messages_Overwrite(_, _, _)
add_messages_Overwrite(left, right, fresh) ==
    IF right = <<>> THEN <<>>
    ELSE LET m0 == Head(right)
             m == IF m0.id = NoId THEN [m0 EXCEPT !.id = fresh] ELSE m0
         IN <<m>> \o add_messages_Overwrite(left, Tail(right), fresh + 1)

\* the add_messages reducer of MessagesState: a message whose id is already
\* in the list replaces that message, any other message is appended; a
\* message without an id gets a fresh one
RECURSIVE add_messages(_, _, _)
add_messages(left, right, fresh) ==
    IF right = <<>> THEN left
    ELSE LET m0 == Head(right)
             m == IF m0.id = NoId THEN [m0 EXCEPT !.id = fresh] ELSE m0
             hit == {i \in DOMAIN left : left[i].id = m.id}
             merged == IF hit # {}
                       THEN [i \in DOMAIN left |-> IF i \in hit THEN m ELSE left[i]]
                       ELSE Append(left, m)
         IN add_messages(merged, Tail(right), fresh + 1)

Last(s) == s[Len(s)]

\* tool-call requests of a draft with id `rid`: one per requested name
ToolCalls(rid, names) ==
    [i \in 1..Len(names) |-> [name |-> names[i], id |-> <<rid, i>>]]

RECURSIVE SeqsUpTo(_, _)
SeqsUpTo(S, n) ==
    IF n = 0 THEN {<<>>}
    ELSE LET shorter == SeqsUpTo(S, n - 1)
         IN shorter \cup {Append(s, x) : s \in {t \in shorter : Len(t) = n - 1}, x \in S}

\* the drafts the bound model can return for a call that gets id `rid`
Drafts(rid) ==
    {AIMessage(rid, c, ToolCalls(rid, names)) :
        c \in DraftTexts, names \in SeqsUpTo(ToolNames, MaxCalls)}

\* ------------------------------------------------------------------ state
VARIABLES
    node,             \* the node the graph is at ("done" or "out_of_steps" between turns)
    messages,         \* AgentState.messages
    safety,           \* AgentState.safety
    remaining_steps,  \* AgentState.remaining_steps as the current node reads it
    next_id,          \* source of fresh message ids
    tool_started,     \* tools node: number of requests whose tool was started
    tool_out,         \* tools node: per request, Pending or the tool's output
    \* history of the current turn
    path,             \* nodes run so far in this turn
    turn_start,       \* Len(messages) when the turn started
    budget,           \* remaining_steps at the first node of the turn
    invoked,          \* tool invocations of this turn
    guard_out,        \* what the classifier returned in guard_input
    draft,            \* the last model response
    draft_steps,      \* remaining_steps when that response was produced
    draft_at,         \* Len(messages) when that response was produced
    agent_out,        \* the Agent-role verdict on that response
    model_in,         \* the messages the model was called with for that response
    agent_in,         \* the messages the Agent-role check was called with
    awaited,          \* acall_model's response while the Agent-role check is pending
    discarded,        \* ids of the drafts dropped as unsafe (whole session)
    call_log,         \* classifier and model calls of this turn, in order
    \* state of the other views of the program
    tool_run,         \* one tool callable being executed
    sessions,         \* the turns of concurrent sessions
    store             \* the checkpoint store, by key

vars == <<node, messages, safety, remaining_steps, next_id, tool_started, tool_out,
          path, turn_start, budget, invoked, guard_out, draft, draft_steps,
          draft_at, agent_out, model_in, agent_in, awaited, discarded,
          call_log, tool_run, sessions, store>>

toolvars == <<tool_started, tool_out>>
drafthist == <<draft, draft_steps, draft_at, agent_out, model_in, agent_in, awaited>>
\* what the turn controller of one session never touches
aux == <<tool_run, sessions, store>>

\* ------------------------------------------------------- graph runtime
\* RemainingSteps: every superstep lowers it by one. After a superstep the
\* runtime tests the step limit before it looks for the next tasks, so a node
\* that ran with no step left has its writes applied and the run then ends
\* with GraphRecursionError, whether its edge leads to another node or to END
NextNode(target, rs) ==
    IF rs - 1 < 0 THEN "out_of_steps"
    ELSE IF target = END THEN "done"
    ELSE target

\* variant: only a step into model lowers the counter
NextSteps_OnlyIntoModel(target, rs) ==
    IF target = "model" THEN rs - 1 ELSE rs

\* variant: the counter is never lowered
NextSteps_Keep(target, rs) == rs

NextSteps(target, rs) ==
    IF target = END THEN rs ELSE rs - 1

Goto(target) ==
    /\ node' = NextNode(target, remaining_steps)
    /\ remaining_steps' = NextSteps(target, remaining_steps)

\* ------------------------------------------------------------ the graph
\* variant: the routing function never answers "unsafe"
check_safety_AlwaysSafe(s) == "safe"

\* variant: only an assessment of safe passes
check_safety_OnlySafePasses(s) ==
    IF s.safety_assessment = SAFE THEN "safe" ELSE "unsafe"

check_safety(s) ==
    IF s.safety_assessment = UNSAFE THEN "unsafe" ELSE "safe"

GuardInputEdge(s) ==
    IF check_safety(s) = "unsafe" THEN "block_unsafe_content" ELSE "model"

\* variant: the routing function never answers "tools"
pending_tool_calls_NeverTools(msgs) ==
    IF Last(msgs).type # "ai" THEN "TypeError" ELSE "done"

pending_tool_calls(msgs) ==
    IF Last(msgs).type # "ai" THEN "TypeError"
    ELSE IF Last(msgs).tool_calls # <<>> THEN "tools"
    ELSE "done"

\* add_conditional_edges("model", pending_tool_calls, {"tools": "tools", "done": END});
\* a TypeError raised by the routing function ends the run
ModelEdge(msgs) ==
    CASE pending_tool_calls(msgs) = "tools" -> "tools"
      [] pending_tool_calls(msgs) = "done" -> END
      [] OTHER -> "TypeError"

\* variant: the turn ends after the tools node
ToolsEdge_End == END

ToolsEdge == "model"

\* a call to the classifier (by role) or to the model, and whether it returned
Call(kind, ok) == [kind |-> kind, ok |-> ok]

\* variant: guard_input itself answers an unsafe input
GuardMessages_Flag(v) ==
    IF v.safety_assessment = UNSAFE THEN <<format_safety_message(v)>> ELSE <<>>

\* the "messages" llama_guard_input returns: none
GuardMessages(v) == <<>>

\* variant: an unsafe verdict left in the state is kept by guard_input
GuardSafety_Sticky(old, v) == IF old.safety_assessment = UNSAFE THEN old ELSE v

\* the "safety" llama_guard_input returns: the verdict of this call, which
\* overwrites the stored one
GuardSafety(old, v) == v

\* the system instruction of the assistant
instructions == <<"You are a helpful JIRA assistant">>

\* variant: the model is called with the stored messages alone
StateModifier_Bare(msgs) == msgs

\* wrap_model's preprocessor: the system instruction, then the stored messages
StateModifier(msgs) == <<SystemMessage(instructions)>> \o msgs

\* what acall_model hands to the Agent-role check
AgentCheckInput(msgs, response) == msgs \o <<response>>

\* llama_guard_input calls the classifier once, with role "User"
GuardCalls == <<Call("User", TRUE)>>

\* acall_model calls the model ...
ModelCalls == <<Call("model", TRUE)>>

\* variant: the Agent-role check after the model call is left out
AgentCalls_None == <<>>

\* ... and then, once the model has answered, the classifier with role "Agent"
AgentCalls == <<Call("Agent", TRUE)>>

\* variant: the unsafe draft is returned along with the flagged message
ModelMessages_KeepDraft(response, safety_output, steps) ==
    IF safety_output.safety_assessment = UNSAFE
    THEN <<response, format_safety_message(safety_output)>>
    ELSE IF steps < StepThreshold /\ response.tool_calls # <<>>
    THEN <<AIMessage(response.id, NeedMoreSteps, <<>>)>>
    ELSE <<response>>

\* variant: no step-budget check
ModelMessages_NoBudgetCheck(response, safety_output, steps) ==
    IF safety_output.safety_assessment = UNSAFE
    THEN <<format_safety_message(safety_output)>>
    ELSE <<response>>

\* variant: the budget check does not look at the draft's tool calls
ModelMessages_BudgetOnly(response, safety_output, steps) ==
    IF safety_output.safety_assessment = UNSAFE
    THEN <<format_safety_message(safety_output)>>
    ELSE IF steps < StepThreshold
    THEN <<AIMessage(response.id, NeedMoreSteps, <<>>)>>
    ELSE <<response>>

\* what acall_model returns for "messages" and "safety"
\* variant: the budget check comes before the unsafe check
ModelMessages_BudgetFirst(response, safety_output, steps) ==
    IF steps < StepThreshold /\ response.tool_calls # <<>>
    THEN <<AIMessage(response.id, NeedMoreSteps, <<>>)>>
    ELSE IF safety_output.safety_assessment = UNSAFE
    THEN <<format_safety_message(safety_output)>>
    ELSE <<response>>

\* variant: an unsafe draft is dropped and nothing is appended in its place
ModelMessages_UnsafeSilent(response, safety_output, steps) ==
    IF safety_output.safety_assessment = UNSAFE
    THEN <<>>
    ELSE IF steps < StepThreshold /\ response.tool_calls # <<>>
    THEN <<AIMessage(response.id, NeedMoreSteps, <<>>)>>
    ELSE <<response>>

ModelMessages(response, safety_output, steps) ==
    IF safety_output.safety_assessment = UNSAFE
    THEN <<format_safety_message(safety_output)>>
    ELSE IF steps < StepThreshold /\ response.tool_calls # <<>>
    THEN <<AIMessage(response.id, NeedMoreSteps, <<>>)>>
    ELSE <<response>>

\* variant: acall_model never writes the verdict
ModelSafety_Keep(old, safety_output) == old

ModelSafety(old, safety_output) ==
    IF safety_output.safety_assessment = UNSAFE THEN safety_output ELSE old

\* variant: the results are appended last request first
ToolNodeMessages_Reversed(calls, outs) ==
    [i \in 1..Len(calls) |->
        ToolMessage(outs[Len(calls) + 1 - i], calls[Len(calls) + 1 - i].id)]

\* variant: a result that reports an error is not appended
RECURSIVE ToolNodeMessages_ErrorsDropped(_, _)
ToolNodeMessages_ErrorsDropped(calls, outs) ==
    IF calls = <<>> THEN <<>>
    ELSE (IF Head(outs) = ErrorText THEN <<>>
          ELSE <<ToolMessage(Head(outs), Head(calls).id)>>)
         \o ToolNodeMessages_ErrorsDropped(Tail(calls), Tail(outs))

\* what ToolNode returns: one ToolMessage per request, in request order
ToolNodeMessages(calls, outs) ==
    [i \in 1..Len(calls) |-> ToolMessage(outs[i], calls[i].id)]

\* no tool callable is being looked at
ToolIdle == [pc |-> "idle"]

\* ---------------------------------------------------------------- actions
\* the first turn of a session, at its entry point; its first node reads the
\* recursion limit of the invocation, which the runtime requires to be at
\* least 1 (a lower limit is refused before any node runs)
CtlInit ==
    /\ node = "guard_input"
    /\ \E u \in UserTexts : messages = add_messages(<<>>, <<HumanMessage(u)>>, 1)
    /\ safety = NoVerdict
    /\ remaining_steps \in 1..MaxLimit
    /\ budget = remaining_steps
    /\ next_id = 2
    /\ tool_started = 0
    /\ tool_out = <<>>
    /\ path = <<"guard_input">>
    /\ turn_start = 1
    /\ invoked = 0
    /\ guard_out = NoVerdict
    /\ draft = NoDraft
    /\ draft_steps = 0
    /\ draft_at = 0
    /\ agent_out = NoVerdict
    /\ model_in = <<>>
    /\ agent_in = <<>>
    /\ awaited = NoDraft
    /\ discarded = {}
    /\ call_log = <<>>

Init ==
    /\ CtlInit
    /\ tool_run = ToolIdle
    /\ sessions = <<>>
    /\ store = <<>>

Visit == path' = IF node' \in {"done", "out_of_steps", "TypeError"} THEN path
                 ELSE Append(path, node')

llama_guard_input(v) ==
    /\ node = "guard_input"
    /\ safety' = GuardSafety(safety, v)
    /\ guard_out' = v
    /\ messages' = add_messages(messages, GuardMessages(v), next_id)
    /\ Goto(GuardInputEdge(safety'))
    /\ Visit
    /\ call_log' = call_log \o GuardCalls
    /\ UNCHANGED <<next_id, toolvars, turn_start, budget, invoked, drafthist, discarded, aux>>

block_unsafe_content ==
    /\ node = "block_unsafe_content"
    /\ messages' = add_messages(messages, <<format_safety_message(safety)>>, next_id)
    /\ next_id' = next_id + 1
    /\ Goto(END)
    /\ Visit
    /\ UNCHANGED <<safety, toolvars, turn_start, budget, invoked, guard_out, drafthist,
                   discarded, call_log, aux>>

\* acall_model up to its second await: the model has answered and the node
\* waits for the Agent-role check; nothing is written to the state yet. The
\* provider gives each response an id of its own, so `response.id` is in no
\* stored message
acall_model_response(response) ==
    /\ node = "model"
    /\ awaited = NoDraft
    /\ awaited' = response
    /\ model_in' = StateModifier(messages)
    /\ call_log' = call_log \o ModelCalls
    /\ UNCHANGED <<node, messages, safety, remaining_steps, next_id, toolvars, path,
                   turn_start, budget, invoked, guard_out, draft, draft_steps, draft_at,
                   agent_out, agent_in, discarded, aux>>

\* acall_model from the answer of the Agent-role check to its return: the
\* unsafe check, the budget check and the node's writes
acall_model(v) ==
    /\ node = "model"
    /\ awaited # NoDraft
    /\ messages' = add_messages(messages,
                                ModelMessages(awaited, v, remaining_steps), next_id + 1)
    /\ safety' = ModelSafety(safety, v)
    /\ next_id' = next_id + 2
    /\ draft' = awaited
    /\ draft_steps' = remaining_steps
    /\ draft_at' = Len(messages)
    /\ agent_out' = v
    /\ agent_in' = AgentCheckInput(messages, awaited)
    /\ awaited' = NoDraft
    /\ discarded' = IF v.safety_assessment = UNSAFE THEN discarded \cup {awaited.id}
                    ELSE discarded
    /\ Goto(ModelEdge(messages'))
    /\ tool_started' = 0
    /\ tool_out' = [i \in 1..Len(Last(messages').tool_calls) |-> Pending]
    /\ Visit
    /\ call_log' = call_log \o AgentCalls
    /\ UNCHANGED <<turn_start, budget, invoked, guard_out, model_in, aux>>

\* the requests the tools node serves: those of the last message
PendingCalls == Last(messages).tool_calls

\* variant: the node appends as soon as one tool has returned
AllReturned_Any(outs) == \E i \in DOMAIN outs : outs[i] # Pending

\* ToolNode gathers the outputs of all the calls it started
AllReturned(outs) == \A i \in DOMAIN outs : outs[i] # Pending

\* ToolNode starts the requested tools in request order ...
ToolStart ==
    /\ node = "tools"
    /\ tool_started < Len(PendingCalls)
    /\ tool_started' = tool_started + 1
    /\ invoked' = invoked + 1
    /\ UNCHANGED <<node, messages, safety, remaining_steps, next_id, tool_out, path,
                   turn_start, budget, guard_out, drafthist, discarded, call_log, aux>>

\* ... each returns a string (a result or an error text) ...
ToolReturn(i, out) ==
    /\ node = "tools"
    /\ i \in 1..tool_started
    /\ tool_out[i] = Pending
    /\ tool_out' = [tool_out EXCEPT ![i] = out]
    /\ UNCHANGED <<node, messages, safety, remaining_steps, next_id, tool_started, path,
                   turn_start, budget, invoked, guard_out, drafthist, discarded, call_log, aux>>

\* ... and when all have returned the node appends the results
ToolsDone ==
    /\ node = "tools"
    /\ tool_started = Len(PendingCalls)
    /\ AllReturned(tool_out)
    /\ messages' = add_messages(messages, ToolNodeMessages(PendingCalls, tool_out), next_id)
    /\ next_id' = next_id + Len(PendingCalls)
    /\ Goto(ToolsEdge)
    /\ Visit
    /\ UNCHANGED <<safety, toolvars, turn_start, budget, invoked, guard_out, drafthist,
                   discarded, call_log, aux>>

\* variant: a graph compiled without a checkpointer starts every turn from
\* the new input alone
TurnInput_NoCheckpoint(saved, u, fresh) == add_messages(<<>>, <<HumanMessage(u)>>, fresh)

\* the messages a turn starts from: the checkpoint's history with the new
\* user message added by the reducer
TurnInput(saved, u, fresh) == add_messages(saved, <<HumanMessage(u)>>, fresh)

\* the invocation is over: it returned, or it raised GraphRecursionError after
\* the writes of its last superstep were checkpointed
TurnOver(n) == n \in {"done", "out_of_steps"}

\* the next turn of the session: the checkpoint keeps messages and safety,
\* the caller's config gives the recursion limit, which the runtime requires
\* to be at least 1
NewTurn(u, limit) ==
    /\ TurnOver(node)
    /\ Len(messages) < MaxHistory
    /\ messages' = TurnInput(messages, u, next_id)
    /\ next_id' = next_id + 1
    /\ node' = "guard_input"
    /\ remaining_steps' = limit
    /\ budget' = limit
    /\ path' = <<"guard_input">>
    /\ turn_start' = Len(messages')
    /\ invoked' = 0
    /\ guard_out' = NoVerdict
    /\ draft' = NoDraft
    /\ draft_steps' = 0
    /\ draft_at' = 0
    /\ agent_out' = NoVerdict
    /\ model_in' = <<>>
    /\ agent_in' = <<>>
    /\ awaited' = NoDraft
    /\ tool_started' = 0
    /\ tool_out' = <<>>
    /\ call_log' = <<>>
    /\ UNCHANGED <<safety, discarded, aux>>

Next ==
    \/ \E v \in Verdicts : llama_guard_input(v)
    \/ block_unsafe_content
    \/ \E r \in Drafts(next_id) : acall_model_response(r)
    \/ \E v \in Verdicts : acall_model(v)
    \/ ToolStart
    \/ \E i \in 1..MaxCalls + 1 : \E out \in ToolOutputs : ToolReturn(i, out)
    \/ ToolsDone
    \/ \E u \in UserTexts : \E limit \in 1..MaxLimit : NewTurn(u, limit)

Spec == Init /\ [][Next]_vars

\* ------------------------------------------- classifier and model failures
\* variant: a failed call is swallowed, the input counts as safe and a
\* failed model step ends the turn normally
FailureTarget_FailOpen(n) == IF n = "guard_input" THEN "model" ELSE "done"

\* neither llama_guard_input nor acall_model catches anything: an exception
\* of the classifier or of the model leaves the node and ends the run
FailureTarget(n) == "failed"

\* the writes of a node that raised: none
FailureMessages(n) == <<>>

CallFails(log) ==
    /\ call_log' = call_log \o log
    /\ node' = FailureTarget(node)
    /\ messages' = add_messages(messages, FailureMessages(node), next_id)
    /\ UNCHANGED <<safety, remaining_steps, next_id, toolvars, path, turn_start, budget,
                   invoked, guard_out, drafthist, discarded, aux>>

\* llama_guard.ainvoke("User", ...) raises
GuardCallFails ==
    /\ node = "guard_input"
    /\ CallFails(<<Call("User", FALSE)>>)

\* model_runnable.ainvoke raises
ModelCallFails ==
    /\ node = "model"
    /\ awaited = NoDraft
    /\ CallFails(<<Call("model", FALSE)>>)

\* the model has returned a draft and llama_guard.ainvoke("Agent", ...) raises
AgentCheckFails ==
    /\ node = "model"
    /\ awaited # NoDraft
    /\ CallFails(<<Call("Agent", FALSE)>>)

NextF ==
    \/ Next
    \/ GuardCallFails
    \/ ModelCallFails
    \/ AgentCheckFails

\* the turns of a session whose classifier and model calls may fail
SpecF == Init /\ [][NextF]_vars

\* ------------------------------------------------------ the tool callables
\* One call of a registered tool, step by step: build the API client, call
\* the backend, format the answer, or run the except branch.
RunTools == {"get_comment", "get_all_projects", "search_code_repositories"}

\* what the backend does with the request: the call raises (no connection),
\* or a response comes back
\* response bodies: JSON objects with and without the error keys, and text
\* that is not JSON
NotJson == [none |-> TRUE]
JsonBody(value) == [is_json |-> TRUE, value |-> value, text |-> "{...}"]
TextBody(text) == [is_json |-> FALSE, value |-> NotJson, text |-> text]

Bodies ==
    { JsonBody([id |-> "10000"]),
      JsonBody([errorMessages |-> <<"Issue does not exist", "No permission">>]),
      JsonBody([message |-> "Unauthorized"]),
      TextBody("<html>Bad Gateway</html>"),
      TextBody("") }

StatusCodes == {200, 204, 399, 400, 404}

ApiOutcomes ==
    {[kind |-> "raise", status |-> 0, body |-> TextBody("")]} \cup
    {[kind |-> "response", status |-> st, body |-> b] : st \in StatusCodes, b \in Bodies}

\* what _handle_response gives its caller
Raised(type, message) == [kind |-> "raise", type |-> type, message |-> message, value |-> NotJson]
Value(value) == [kind |-> "dict", type |-> "dict", message |-> <<>>, value |-> value]
NotHandled == [kind |-> "none", type |-> "none", message |-> <<>>, value |-> NotJson]

\* f"JIRA API Error - Status: {response.status_code}" and what is added to it
ErrorMessage(status, detail) ==
    [prefix |-> "JIRA API Error - Status: ", status |-> status, detail |-> detail]

ErrorDetail(body) ==
    IF ~body.is_json THEN <<" - ", body.text>>
    ELSE IF "errorMessages" \in DOMAIN body.value
    THEN <<" - ">> \o Join(body.value.errorMessages)
    ELSE IF "message" \in DOMAIN body.value THEN <<" - ", body.value.message>>
    ELSE <<>>

\* variant: a body that is not JSON is an error whatever the status
HandleResponse_Strict(response) ==
    IF ~response.body.is_json
    THEN Raised("ValueError", [prefix |-> "Invalid JSON response from JIRA API: ",
                               status |-> 0, detail |-> <<response.body.text>>])
    ELSE IF response.status >= 400
    THEN Raised("ValueError", ErrorMessage(response.status, ErrorDetail(response.body)))
    ELSE Value(response.body.value)

\* JiraApiClient._handle_response
HandleResponse(response) ==
    IF response.status >= 400
    THEN Raised("ValueError", ErrorMessage(response.status, ErrorDetail(response.body)))
    ELSE IF response.status = 204
    THEN Value([success |-> TRUE, status_code |-> 204])
    ELSE IF response.body.is_json THEN Value(response.body.value)
    ELSE Value([success |-> TRUE, status_code |-> response.status,
                text |-> response.body.text])

NoResult == [kind |-> "none", text |-> ""]
Returned(kind, text) == [kind |-> kind, text |-> text]

\* JiraApiClient.__init__ / AzureDevOpsClient.__init__: ValueError when a
\* credential is not set
ClientRaises(creds) == ~creds

\* get_comment builds its client before the try block
ClientOutsideTry(tool) == tool = "get_comment"

\* the except branch of search_code builds a client again
HandlerBuildsClient(tool) == tool = "search_code_repositories"

\* what the tool hands back on success and from its except branch
SuccessValue(tool) ==
    IF tool = "search_code_repositories"
    THEN Returned("dict", "formatted_results")
    ELSE Returned("str", "formatted text")

HandlerValue(tool) ==
    IF tool = "search_code_repositories"
    THEN Returned("dict", "{error: Azure DevOps API Error}")
    ELSE Returned("str", "Error retrieving")

\* JiraApiClient._handle_response, and the SDK call of the Azure DevOps
\* tools: does the backend answer make the call raise
ApiRaises(api) == api.kind = "raise" \/ HandleResponse(api).kind = "raise"

ToolRunVars == <<node, messages, safety, remaining_steps, next_id, tool_started, tool_out,
                 path, turn_start, budget, invoked, guard_out, draft, draft_steps,
                 draft_at, agent_out, model_in, agent_in, awaited, discarded,
          call_log, sessions, store>>

InitT ==
    /\ CtlInit
    /\ remaining_steps = 1
    /\ tool_run \in [pc : {"start"}, tool : RunTools, creds : BOOLEAN,
                      api : ApiOutcomes, handled : {NotHandled}, result : {NoResult}]
    /\ sessions = <<>>
    /\ store = <<>>

RunConstructClient ==
    /\ tool_run.pc = "start"
    /\ tool_run' =
          IF ~ClientRaises(tool_run.creds) THEN [tool_run EXCEPT !.pc = "client"]
          ELSE IF ClientOutsideTry(tool_run.tool)
          THEN [tool_run EXCEPT !.pc = "returned", !.result = Returned("raise", "ValueError")]
          ELSE [tool_run EXCEPT !.pc = "handler"]
    /\ UNCHANGED ToolRunVars

RunCallApi ==
    /\ tool_run.pc = "client"
    /\ tool_run' = [tool_run EXCEPT !.pc = IF ApiRaises(tool_run.api) THEN "handler"
                                          ELSE "format",
                                   !.handled = IF tool_run.api.kind = "raise" THEN NotHandled
                                               ELSE HandleResponse(tool_run.api)]
    /\ UNCHANGED ToolRunVars

RunFormat ==
    /\ tool_run.pc = "format"
    /\ tool_run' = [tool_run EXCEPT !.pc = "returned", !.result = SuccessValue(tool_run.tool)]
    /\ UNCHANGED ToolRunVars

RunHandler ==
    /\ tool_run.pc = "handler"
    /\ tool_run' =
          IF HandlerBuildsClient(tool_run.tool) /\ ClientRaises(tool_run.creds)
          THEN [tool_run EXCEPT !.pc = "returned", !.result = Returned("raise", "ValueError")]
          ELSE [tool_run EXCEPT !.pc = "returned", !.result = HandlerValue(tool_run.tool)]
    /\ UNCHANGED ToolRunVars

NextT ==
    \/ RunConstructClient
    \/ RunCallApi
    \/ RunFormat
    \/ RunHandler

ToolSpec == InitT /\ [][NextT]_vars

\* ------------------------------------------------- concurrent sessions
\* Two sessions run their turns against the one compiled graph and its one
\* MemorySaver. Each session has a script: the recursion limit of its turns
\* and what the classifier and the model answer.
SessionIds == {"a", "b"}
TurnsPerSession == 2

SafeVerdict == LlamaGuardOutput(SAFE, <<>>)
ScriptVerdicts == {SafeVerdict, LlamaGuardOutput(UNSAFE, <<"Violent Crimes">>)}

Scripts == [limit : 1..MaxLimit, guard : ScriptVerdicts, names : SeqsUpTo(ToolNames, 1)]

UserTextOf(s) == <<"list all projects", s>>
ScriptDraftText == <<"Here are the projects.">>
ScriptToolOutput == "[{\"id\": \"1\"}]"

\* variant: every session is stored under one key
CheckpointKey_Shared(s) == "a"

\* the checkpoint of a session is stored under the thread id of its config
CheckpointKey(s) == s

CheckpointKeys == {CheckpointKey(s) : s \in SessionIds}

\* what the checkpoint keeps of AgentState: the channels, not the managed
\* remaining_steps
NoCheckpoint == [messages |-> <<>>, safety |-> NoVerdict]
Checkpoint(L) == [messages |-> L.messages, safety |-> L.safety]

\* a session that has not run yet
IdleSession(sc) ==
    [node |-> "idle", messages |-> <<>>, safety |-> NoVerdict, remaining_steps |-> 0,
     next_id |-> 1, model_calls |-> 0, awaited |-> NoDraft, turns |-> 0, met |-> FALSE,
     script |-> sc]

Ended(L) == L.node \in {"done", "out_of_steps", "TypeError"}
Running(L) == L.node \in {"guard_input", "block_unsafe_content", "model", "tools"}
Final(L) == Ended(L) /\ L.turns = TurnsPerSession

\* the invocation loads the session's checkpoint and adds the user message
BeginTurn(L, saved, u) ==
    [L EXCEPT !.node = "guard_input",
              !.messages = TurnInput(saved.messages, u, L.next_id),
              !.safety = saved.safety,
              !.remaining_steps = L.script.limit,
              !.next_id = L.next_id + 1,
              !.model_calls = 0,
              !.turns = L.turns + 1]

\* the draft the model returns in a scripted session: the first call of a
\* turn requests the script's tools, later calls answer in text
ScriptDraft(L) ==
    AIMessage(L.next_id, ScriptDraftText,
              ToolCalls(L.next_id, IF L.model_calls = 0 THEN L.script.names ELSE <<>>))

GuardStep(L) ==
    [L EXCEPT !.messages = add_messages(L.messages, GuardMessages(L.script.guard), L.next_id),
              !.safety = GuardSafety(L.safety, L.script.guard),
              !.node = NextNode(GuardInputEdge(L.script.guard), L.remaining_steps),
              !.remaining_steps = NextSteps(GuardInputEdge(L.script.guard), L.remaining_steps)]

BlockStep(L) ==
    [L EXCEPT !.messages = add_messages(L.messages, <<format_safety_message(L.safety)>>,
                                        L.next_id),
              !.next_id = L.next_id + 1,
              !.node = NextNode(END, L.remaining_steps),
              !.remaining_steps = NextSteps(END, L.remaining_steps)]

\* acall_model up to its second await: the model has answered
ModelResponseStep(L) == [L EXCEPT !.awaited = ScriptDraft(L)]

\* acall_model from the answer of the Agent-role check to its return
ModelStep(L) ==
    LET msgs == add_messages(L.messages,
                             ModelMessages(L.awaited, SafeVerdict, L.remaining_steps),
                             L.next_id + 1)
    IN [L EXCEPT !.messages = msgs,
                 !.safety = ModelSafety(L.safety, SafeVerdict),
                 !.next_id = L.next_id + 2,
                 !.model_calls = L.model_calls + 1,
                 !.awaited = NoDraft,
                 !.node = NextNode(ModelEdge(msgs), L.remaining_steps),
                 !.remaining_steps = NextSteps(ModelEdge(msgs), L.remaining_steps)]

ToolsStep(L) ==
    LET requests == Last(L.messages).tool_calls
        outs == [i \in 1..Len(requests) |-> ScriptToolOutput]
    IN [L EXCEPT !.messages = add_messages(L.messages, ToolNodeMessages(requests, outs),
                                           L.next_id),
                 !.next_id = L.next_id + Len(requests),
                 !.node = NextNode(ToolsEdge, L.remaining_steps),
                 !.remaining_steps = NextSteps(ToolsEdge, L.remaining_steps)]

\* one node of the graph run on a session's own state
NodeStep(L) ==
    CASE L.node = "guard_input" -> GuardStep(L)
      [] L.node = "block_unsafe_content" -> BlockStep(L)
      [] L.node = "model" /\ L.awaited = NoDraft -> ModelResponseStep(L)
      [] L.node = "model" /\ L.awaited # NoDraft -> ModelStep(L)
      [] L.node = "tools" -> ToolsStep(L)
      [] OTHER -> L

ConcFrame == <<node, messages, safety, remaining_steps, next_id, tool_started, tool_out,
               path, turn_start, budget, invoked, guard_out, draft, draft_steps,
               draft_at, agent_out, model_in, agent_in, awaited, discarded,
          call_log, tool_run>>

InitC ==
    /\ CtlInit
    /\ remaining_steps = 1
    /\ tool_run = ToolIdle
    /\ sessions \in [SessionIds -> {IdleSession(sc) : sc \in Scripts}]
    /\ store = [k \in CheckpointKeys |-> NoCheckpoint]

\* some other session is in the middle of a turn
OthersRunning(s) == \E t \in SessionIds \ {s} : Running(sessions[t])

\* the state of a session after a step is written to its checkpoint entry
Save(s, L) ==
    /\ sessions' = [sessions EXCEPT ![s] = [L EXCEPT !.met = L.met \/ OthersRunning(s)]]
    /\ store' = [store EXCEPT ![CheckpointKey(s)] = Checkpoint(L)]

SessionBegin(s) ==
    /\ sessions[s].node = "idle" \/ Ended(sessions[s])
    /\ sessions[s].turns < TurnsPerSession
    /\ Save(s, BeginTurn(sessions[s], store[CheckpointKey(s)], UserTextOf(s)))
    /\ UNCHANGED ConcFrame

\* a session's acall_model is suspended between its two awaits
AtModelCall(L) == L.node = "model" /\ L.awaited = NoDraft

\* the model answers a session: its node goes on to the Agent-role check;
\* a node in progress writes no checkpoint
SessionModelResponse(s) ==
    /\ AtModelCall(sessions[s])
    /\ sessions' = [sessions EXCEPT ![s] =
                       [ModelResponseStep(@) EXCEPT !.met = @ \/ OthersRunning(s)]]
    /\ UNCHANGED store
    /\ UNCHANGED ConcFrame

\* a node of a session's run comes to its end
SessionStep(s) ==
    /\ Running(sessions[s])
    /\ ~AtModelCall(sessions[s])
    /\ Save(s, NodeStep(sessions[s]))
    /\ UNCHANGED ConcFrame

NextC ==
    \/ \E s \in SessionIds : SessionBegin(s)
    \/ \E s \in SessionIds : SessionModelResponse(s)
    \/ \E s \in SessionIds : SessionStep(s)

ConcSpec == InitC /\ [][NextC]_vars

\* the same turns run one after another: a turn runs to its end before the
\* next begins, session "a" first, through the same store
RECURSIVE RunToEnd(_)
RunToEnd(L) == IF Running(L) THEN RunToEnd(NodeStep(L)) ELSE L

RECURSIVE RunTurns(_, _, _, _)
RunTurns(L, saved, u, n) ==
    IF n = 0 THEN L
    ELSE LET fin == RunToEnd(BeginTurn(L, saved, u))
         IN RunTurns(fin, Checkpoint(fin), u, n - 1)

SerialFirst ==
    RunTurns(IdleSession(sessions["a"].script), NoCheckpoint, UserTextOf("a"), TurnsPerSession)

SerialStore ==
    [[k \in CheckpointKeys |-> NoCheckpoint] EXCEPT ![CheckpointKey("a")] =
        Checkpoint(SerialFirst)]

SerialSecond ==
    RunTurns(IdleSession(sessions["b"].script), SerialStore[CheckpointKey("b")],
             UserTextOf("b"), TurnsPerSession)

SerialFinal(s) == IF s = "a" THEN SerialFirst ELSE SerialSecond

Outcome(L) == <<L.messages, L.safety, L.remaining_steps>>

\* ---------------------------------------------------- the two assistants
\* agents.py registers two compiled graphs. The definitions above follow
\* jira_assistant.py; those below follow azure_devops_assistant.py.
JiraAgent == "jira-assistant"
AzureAgent == "azure-devops-assistant"
agents == {JiraAgent, AzureAgent}

azure_format_safety_message(safety_output) ==
    AIMessage(NoId, <<FlaggedPrefix>> \o Join(safety_output.unsafe_categories), <<>>)

azure_check_safety(s) ==
    IF s.safety_assessment = UNSAFE THEN "unsafe" ELSE "safe"

azure_GuardInputEdge(s) ==
    IF azure_check_safety(s) = "unsafe" THEN "block_unsafe_content" ELSE "model"

azure_pending_tool_calls(msgs) ==
    IF Last(msgs).type # "ai" THEN "TypeError"
    ELSE IF Last(msgs).tool_calls # <<>> THEN "tools"
    ELSE "done"

azure_ModelEdge(msgs) ==
    CASE azure_pending_tool_calls(msgs) = "tools" -> "tools"
      [] azure_pending_tool_calls(msgs) = "done" -> END
      [] OTHER -> "TypeError"

azure_ToolsEdge == "model"

azure_GuardMessages(v) == <<>>
azure_GuardSafety(old, v) == v

azure_ModelMessages(response, safety_output, steps) ==
    IF safety_output.safety_assessment = UNSAFE
    THEN <<azure_format_safety_message(safety_output)>>
    ELSE IF steps < 2 /\ response.tool_calls # <<>>
    THEN <<AIMessage(response.id, NeedMoreSteps, <<>>)>>
    ELSE <<response>>

azure_ModelSafety(old, safety_output) ==
    IF safety_output.safety_assessment = UNSAFE THEN safety_output ELSE old

\* the state of one graph's run and the nodes it has visited in the turn
GraphStart(u, limit) ==
    [node |-> "guard_input", messages |-> TurnInput(<<>>, u, 1), safety |-> NoVerdict,
     remaining_steps |-> limit, next_id |-> 2, awaited |-> NoDraft,
     visited |-> <<"guard_input">>]

Moved(L, target) ==
    [L EXCEPT !.node = NextNode(target, L.remaining_steps),
              !.remaining_steps = NextSteps(target, L.remaining_steps),
              !.visited = L.visited \o <<NextNode(target, L.remaining_steps)>>]

\* one node of graph g run on state L with the answers of the external
\* calls: classifier verdict v, model response, tool outputs outs
GraphGuard(g, L, v) ==
    IF g = JiraAgent
    THEN Moved([L EXCEPT !.messages = add_messages(L.messages, GuardMessages(v), L.next_id),
                         !.safety = GuardSafety(L.safety, v)],
               GuardInputEdge(GuardSafety(L.safety, v)))
    ELSE Moved([L EXCEPT !.messages = add_messages(L.messages, azure_GuardMessages(v),
                                                   L.next_id),
                         !.safety = azure_GuardSafety(L.safety, v)],
               azure_GuardInputEdge(azure_GuardSafety(L.safety, v)))

GraphBlock(g, L) ==
    Moved([L EXCEPT !.messages =
                        add_messages(L.messages,
                                     <<IF g = JiraAgent THEN format_safety_message(L.safety)
                                       ELSE azure_format_safety_message(L.safety)>>,
                                     L.next_id),
                    !.next_id = L.next_id + 1],
          END)

\* acall_model up to its second await (the same in both assistants)
GraphModelResponse(g, L, response) == [L EXCEPT !.awaited = response]

\* acall_model from the answer of the Agent-role check to its return
GraphModel(g, L, v) ==
    LET msgs == add_messages(L.messages,
                             IF g = JiraAgent
                             THEN ModelMessages(L.awaited, v, L.remaining_steps)
                             ELSE azure_ModelMessages(L.awaited, v, L.remaining_steps),
                             L.next_id + 1)
    IN Moved([L EXCEPT !.messages = msgs,
                       !.awaited = NoDraft,
                       !.safety = IF g = JiraAgent THEN ModelSafety(L.safety, v)
                                  ELSE azure_ModelSafety(L.safety, v),
                       !.next_id = L.next_id + 2],
             IF g = JiraAgent THEN ModelEdge(msgs) ELSE azure_ModelEdge(msgs))

GraphTools(g, L, outs) ==
    LET requests == Last(L.messages).tool_calls IN
    Moved([L EXCEPT !.messages = add_messages(L.messages,
                                              ToolNodeMessages(requests, outs), L.next_id),
                    !.next_id = L.next_id + Len(requests)],
          IF g = JiraAgent THEN ToolsEdge ELSE azure_ToolsEdge)

GraphNewTurn(L, u, limit) ==
    [L EXCEPT !.node = "guard_input",
              !.messages = TurnInput(L.messages, u, L.next_id),
              !.remaining_steps = limit,
              !.next_id = L.next_id + 1,
              !.visited = <<"guard_input">>]

\* both graphs are given the same input and the same answers; each runs the
\* node it is at
InitP ==
    /\ CtlInit
    /\ remaining_steps = 1
    /\ tool_run = ToolIdle
    /\ \E u \in UserTexts : \E limit \in 1..MaxLimit :
          sessions = [g \in agents |-> GraphStart(u, limit)]
    /\ store = <<>>

PairFrame == <<node, messages, safety, remaining_steps, next_id, tool_started, tool_out,
               path, turn_start, budget, invoked, guard_out, draft, draft_steps,
               draft_at, agent_out, model_in, agent_in, awaited, discarded, call_log, tool_run,
               store>>

At(n) == \E g \in agents : sessions[g].node = n

PairGuard(v) ==
    /\ At("guard_input")
    /\ sessions' = [g \in agents |->
                       IF sessions[g].node = "guard_input"
                       THEN GraphGuard(g, sessions[g], v) ELSE sessions[g]]
    /\ UNCHANGED PairFrame

PairBlock ==
    /\ At("block_unsafe_content")
    /\ sessions' = [g \in agents |->
                       IF sessions[g].node = "block_unsafe_content"
                       THEN GraphBlock(g, sessions[g]) ELSE sessions[g]]
    /\ UNCHANGED PairFrame

AwaitsCheck(L) == L.node = "model" /\ L.awaited # NoDraft

PairModelResponse(response) ==
    /\ \E g \in agents : sessions[g].node = "model" /\ ~AwaitsCheck(sessions[g])
    /\ sessions' = [g \in agents |->
                       IF sessions[g].node = "model" /\ ~AwaitsCheck(sessions[g])
                       THEN GraphModelResponse(g, sessions[g], response) ELSE sessions[g]]
    /\ UNCHANGED PairFrame

PairModel(v) ==
    /\ \E g \in agents : AwaitsCheck(sessions[g])
    /\ sessions' = [g \in agents |->
                       IF AwaitsCheck(sessions[g])
                       THEN GraphModel(g, sessions[g], v) ELSE sessions[g]]
    /\ UNCHANGED PairFrame

PairTools(outs) ==
    /\ At("tools")
    /\ \A g \in agents :
          sessions[g].node = "tools" => Len(outs) = Len(Last(sessions[g].messages).tool_calls)
    /\ sessions' = [g \in agents |->
                       IF sessions[g].node = "tools"
                       THEN GraphTools(g, sessions[g], outs) ELSE sessions[g]]
    /\ UNCHANGED PairFrame

PairNewTurn(u, limit) ==
    /\ \A g \in agents : TurnOver(sessions[g].node) /\ Len(sessions[g].messages) < MaxHistory
    /\ sessions' = [g \in agents |-> GraphNewTurn(sessions[g], u, limit)]
    /\ UNCHANGED PairFrame

NextP ==
    \/ \E v \in Verdicts : PairGuard(v)
    \/ PairBlock
    \/ \E r \in Drafts(sessions[JiraAgent].next_id) : PairModelResponse(r)
    \/ \E v \in Verdicts : PairModel(v)
    \/ \E outs \in SeqsUpTo(ToolOutputs, MaxCalls) : PairTools(outs)
    \/ \E u \in UserTexts : \E limit \in 1..MaxLimit : PairNewTurn(u, limit)

PairSpec == InitP /\ [][NextP]_vars

\* the steps of a turn: every classifier, model and tool call returns
TurnStep ==
    \/ \E v \in Verdicts : llama_guard_input(v)
    \/ block_unsafe_content
    \/ \E r \in Drafts(next_id) : acall_model_response(r)
    \/ \E v \in Verdicts : acall_model(v)
    \/ ToolStart
    \/ \E i \in 1..MaxCalls + 1 : \E out \in ToolOutputs : ToolReturn(i, out)
    \/ ToolsDone

FairSpec == Spec /\ WF_vars(TurnStep)

\* ------------------------------------------------------------ vocabulary
Range(s) == {s[i] : i \in DOMAIN s}

\* the messages the current turn has appended
Output == SubSeq(messages, turn_start + 1, Len(messages))

IsPrefix(s, t) == Len(s) <= Len(t) /\ SubSeq(t, 1, Len(s)) = s

ToolRounds == Cardinality({i \in DOMAIN path : path[i] = "tools"})

FlaggedContent(v) == <<FlaggedPrefix>> \o Join(v.unsafe_categories)

\* the state the model step leaves: its one message is the last
AfterModel == draft # NoDraft /\ Len(messages) = draft_at + 1

\* the state the tools node leaves
AfterTools == node = "model" /\ Len(path) >= 2 /\ path[Len(path) - 1] = "tools"

\* ------------------------------------------------------------------ claims

C2_Original ==
    /\ \A i \in DOMAIN messages : messages[i].id \notin discarded
    /\ agent_out.safety_assessment = UNSAFE =>
          /\ node = "done"
          /\ Last(path) = "model"
          /\ Last(messages).content = FlaggedContent(agent_out)

\* C2 amended: a draft whose Agent check was unsafe is never in the message
\* sequence; the model step appends the flagged message in its place and the
\* turn ends there without entering tools, also when the draft requested
\* tools. The turn is done when the model step had at least one step left;
\* when it had none the run ends with GraphRecursionError after the flagged
\* message is appended.
C2_UnsafeDraftDiscarded ==
    /\ \A i \in DOMAIN messages : messages[i].id \notin discarded
    /\ agent_out.safety_assessment = UNSAFE =>
          /\ draft.id \in discarded
          /\ draft_steps >= 1 => node = "done"
          /\ draft_steps = 0 => node = "out_of_steps"
          /\ Last(path) = "model"
          /\ Len(messages) = draft_at + 1
          /\ Last(messages).type = "ai"
          /\ Last(messages).content = FlaggedContent(agent_out)
          /\ Last(messages).tool_calls = <<>>
          /\ invoked = Cardinality({i \in DOMAIN Output : Output[i].type = "tool"})

C2_Witness ==
    /\ agent_out.safety_assessment = UNSAFE
    /\ draft.tool_calls # <<>>
    /\ draft_steps >= StepThreshold
    /\ node = "done"

\* C3 as stated: a draft that requests tools with fewer than 2 remaining steps
\* makes the whole output of the turn the one "need more steps" message, with
\* no tool invoked and no ToolResult appended in the turn.
C3_Original ==
    (node = "done" /\ draft.tool_calls # <<>> /\ draft_steps < 2) =>
        /\ Len(Output) = 1
        /\ Output[1].type = "ai"
        /\ Output[1].content = NeedMoreSteps
        /\ invoked = 0

\* C3 amended: when the Agent check is not unsafe and the draft requests tools
\* with fewer than 2 remaining steps, the model step appends exactly one
\* assistant message, "need more steps" without tool calls, in place of the
\* draft and the turn ends there; none of the draft's requests is invoked and
\* no ToolResult follows. If the draft is the first of the turn, that message
\* is the only one the turn appends and no tool was invoked in the turn. With
\* the counter at 1 the turn is done; with the counter at 0 the run ends with
\* GraphRecursionError after the message is appended.
C3_NeedMoreSteps ==
    (draft # NoDraft /\ agent_out.safety_assessment # UNSAFE
        /\ draft.tool_calls # <<>> /\ draft_steps < 2) =>
        /\ draft_steps = 1 => node = "done"
        /\ draft_steps = 0 => node = "out_of_steps"
        /\ Len(messages) = draft_at + 1
        /\ Last(messages) = AIMessage(draft.id, NeedMoreSteps, <<>>)
        /\ invoked = Cardinality({i \in DOMAIN Output : Output[i].type = "tool"})
        /\ ToolRounds = 0 => (Len(Output) = 1 /\ invoked = 0)

C3_Witness ==
    /\ node = "done"
    /\ agent_out.safety_assessment = SAFE
    /\ Len(draft.tool_calls) = 2
    /\ draft_steps = 1
    /\ Len(Output) = 1
    /\ Last(messages).content = NeedMoreSteps

\* C4: a draft with tool calls, not judged unsafe, produced with 2 or more
\* remaining steps is appended as it is and the graph goes to tools; tools is
\* never entered from a draft produced with fewer than 2 remaining steps.
C4_BudgetPrecedesDispatch ==
    /\ (AfterModel /\ agent_out.safety_assessment # UNSAFE
          /\ draft.tool_calls # <<>> /\ draft_steps >= 2) =>
          /\ node = "tools"
          /\ Last(messages) = draft
          /\ Last(messages).tool_calls = draft.tool_calls
    /\ node = "tools" =>
          /\ draft_steps >= 2
          /\ agent_out.safety_assessment # UNSAFE
          /\ Last(messages) = draft

C4_Witness ==
    /\ node = "tools"
    /\ draft_steps = 2
    /\ agent_out.safety_assessment = SAFE
    /\ Len(draft.tool_calls) = 2

\* C5: a visit to tools appends as many ToolResult messages as the
\* just-appended assistant message has requests, one per request, in the
\* order of the requests.
C5_OneResultPerRequest ==
    AfterTools =>
        LET n == Len(draft.tool_calls) IN
        /\ n >= 1
        /\ Len(messages) = draft_at + 1 + n
        /\ messages[draft_at + 1] = draft
        /\ \A i \in 1..n :
              /\ messages[draft_at + 1 + i].type = "tool"
              /\ messages[draft_at + 1 + i].tool_call_id = draft.tool_calls[i].id
              /\ messages[draft_at + 1 + i].content = <<tool_out[i]>>

C5_Witness ==
    /\ AfterTools
    /\ Len(draft.tool_calls) = 2
    /\ tool_out[1] # tool_out[2]

\* C6: the message sequence is append-only: in every step, of a turn or
\* between turns, the old sequence is a prefix of the new one.
C6_AppendOnly == [][IsPrefix(messages, messages')]_vars

C6_Witness ==
    /\ node = "done"
    /\ turn_start > 1
    /\ Len(messages) > turn_start
    /\ Last(messages).content = NeedMoreSteps

C8_Original ==
    (draft # NoDraft /\ agent_out.safety_assessment = SAFE /\ draft.tool_calls = <<>>) =>
        /\ node = "done"
        /\ Last(messages) = draft

\* C8 amended: a safe draft without tool calls is appended unchanged as the
\* last message whatever the remaining steps. The turn is then done when the
\* model step had at least one step left; when it had none the run ends with
\* GraphRecursionError after the draft is appended.
C8_PlainDraftAppended ==
    (draft # NoDraft /\ agent_out.safety_assessment = SAFE /\ draft.tool_calls = <<>>) =>
        /\ draft_steps >= 1 => node = "done"
        /\ draft_steps = 0 => node = "out_of_steps"
        /\ Len(messages) = draft_at + 1
        /\ Last(messages) = draft

C8_Witness ==
    /\ node = "out_of_steps"
    /\ draft # NoDraft
    /\ agent_out.safety_assessment = SAFE
    /\ draft.tool_calls = <<>>
    /\ draft_steps = 0

\* C9 as stated: across all turns of a session the counter never increases
\* from one state to the next and is never below zero.
C9_Original == [][remaining_steps' <= remaining_steps /\ remaining_steps' >= 0]_vars

\* C9 amended: within a turn the counter never increases from one state to
\* the next, and it is never below zero; a new turn sets it again from the
\* recursion limit of its invocation.
C9_WithinTurn ==
    [][/\ node \notin {"done", "out_of_steps"} => remaining_steps' <= remaining_steps
       /\ node \in {"done", "out_of_steps"} => remaining_steps' = budget'
       /\ remaining_steps' >= 0]_vars

C9_Witness ==
    /\ node = "model"
    /\ remaining_steps = 0
    /\ ToolRounds = 1
    /\ turn_start > 1

\* C10: tools is always followed by model: it never goes to done, to
\* guard_input or to block_unsafe_content, whatever the tools returned.
C10_ToolsThenModel ==
    [][node = "tools" => node' \in {"tools", "model"}]_vars

C10_Witness ==
    /\ AfterTools
    /\ \E i \in DOMAIN tool_out : tool_out[i] = "Error retrieving projects"

\* C11 as stated: the tools state is what lowers the counter, so the value
\* the model step reads after k tool rounds is the turn's initial budget
\* minus k.
C11_Original == node = "model" => remaining_steps = budget - ToolRounds

\* C11 amended: every node run lowers the counter by one, guard_input and
\* model as well as tools: a node reads the turn's initial budget minus the
\* number of nodes run before it, so the model step after k tool rounds reads
\* the initial budget minus 1 + 2k.
C11_StepPerNode ==
    /\ node \in {"guard_input", "model", "tools", "block_unsafe_content"} =>
          remaining_steps = budget - (Len(path) - 1)
    /\ node = "model" => remaining_steps = budget - 1 - 2 * ToolRounds
    /\ node = "tools" => remaining_steps = budget - 2 * ToolRounds

C11_Witness ==
    /\ node = "model"
    /\ ToolRounds = 1
    /\ budget = 4
    /\ remaining_steps = 1

CallsOf(kind) == Cardinality({i \in DOMAIN call_log : call_log[i].kind = kind})

\* the model has answered and its draft waits for the Agent-role check
CheckPending == node = "model" /\ awaited # NoDraft

\* model nodes that have run to their end in this turn
ModelRuns ==
    Cardinality({i \in DOMAIN path : path[i] = "model"}) - (IF node = "model" THEN 1 ELSE 0)

\* C13: in a turn the classifier is called once with role "User", in
\* guard_input, and once with role "Agent" right after each model call, and
\* not in the tools state: a turn with m model calls makes 1 + m classifier
\* calls.
C13_ClassifierCalls ==
    /\ [](/\ node = "guard_input" => call_log = <<>>
          /\ node # "guard_input" => (call_log[1].kind = "User" /\ CallsOf("User") = 1)
          /\ CallsOf("Agent") = ModelRuns
          /\ CallsOf("model") = ModelRuns + (IF CheckPending THEN 1 ELSE 0)
          /\ \A i \in DOMAIN call_log :
                call_log[i].kind = "model" =>
                    \/ i < Len(call_log) /\ call_log[i + 1].kind = "Agent"
                    \/ i = Len(call_log) /\ CheckPending
          /\ node = "done" => CallsOf("User") + CallsOf("Agent") = 1 + ModelRuns)
    /\ [][node = "tools" => call_log' = call_log]_vars

C13_Witness ==
    /\ node = "done"
    /\ ModelRuns = 2
    /\ CallsOf("User") + CallsOf("Agent") = 3
    /\ invoked = 2

\* C14: guard_input appends no message and leaves the message sequence as it
\* was, storing only the verdict; the model step, where the Agent-role check
\* runs, changes the history only by the one message the step returns.
C14_GuardInputFrame ==
    /\ [][node = "guard_input" =>
            /\ messages' = messages
            /\ safety' = guard_out'
            /\ next_id' = next_id]_vars
    /\ [][node = "model" =>
            /\ IsPrefix(messages, messages')
            /\ awaited = NoDraft => messages' = messages
            /\ awaited # NoDraft => Len(messages') = Len(messages) + 1]_vars

C14_Witness ==
    /\ node = "block_unsafe_content"
    /\ turn_start > 1
    /\ Len(messages) = turn_start
    /\ safety = guard_out
    /\ safety.safety_assessment = UNSAFE

\* a call of this turn raised
Failed == \E i \in DOMAIN call_log : ~call_log[i].ok

\* C15: a classifier or model call that fails ends the turn as a failure:
\* no call follows the failed one (no retry), the failing step appends no
\* message and stores no verdict, and the turn does not reach done.
C15_FailurePropagates ==
    /\ [](Failed =>
            /\ node = "failed"
            /\ ~Last(call_log).ok
            /\ Cardinality({i \in DOMAIN call_log : ~call_log[i].ok}) = 1)
    /\ [][(~Failed /\ Failed') =>
            /\ messages' = messages
            /\ safety' = safety]_vars
    /\ [][node = "failed" => node' = "failed"]_vars

C15_Witness ==
    /\ node = "failed"
    /\ ToolRounds = 1
    /\ Last(call_log) = Call("Agent", FALSE)
    /\ Last(messages).type = "tool"

ToolMessagesIn(msgs) == Cardinality({i \in DOMAIN msgs : msgs[i].type = "tool"})

\* C16: a tool that reports a failure is treated as one that succeeded: its
\* error text is appended as a ToolResult like any other, every request is
\* invoked once and not again, and the controller goes on to model.
C16_ToolErrorOrdinary ==
    /\ node = "tools" =>
          /\ tool_started <= Len(PendingCalls)
          /\ invoked = ToolMessagesIn(Output) + tool_started
    /\ node # "tools" => invoked = ToolMessagesIn(Output)
    /\ Last(path) = "tools" => node = "tools"
    /\ AfterTools =>
          \A i \in 1..Len(draft.tool_calls) :
              /\ messages[draft_at + 1 + i] =
                    [ToolMessage(tool_out[i], draft.tool_calls[i].id)
                        EXCEPT !.id = messages[draft_at + 1 + i].id]
              /\ tool_out[i] \in ToolOutputs

C16_Witness ==
    /\ AfterTools
    /\ Len(draft.tool_calls) = 2
    /\ \A i \in 1..2 : tool_out[i] = ErrorText
    /\ invoked = 2

\* C17: no registered tool raises to its caller: every failure path, a
\* missing credential and a failure inside the except branch included, ends
\* in a returned error string.
C17_ToolNeverRaises ==
    tool_run.pc = "returned" => tool_run.result.kind # "raise"

\* C18: every value a registered tool returns is a string, on success and on
\* error, the Azure DevOps search tools included.
C18_ToolReturnsString ==
    (tool_run.pc = "returned" /\ tool_run.result.kind # "raise") =>
        tool_run.result.kind = "str"

\* the turn has ended on the synthesized "need more steps" message
EndedNeedingSteps ==
    /\ node \in {"done", "out_of_steps"}
    /\ Len(messages) > 0
    /\ Last(messages).type = "ai"
    /\ Last(messages).content = NeedMoreSteps

\* the next step starts a turn over the stored history plus one user message
ResumesOverHistory ==
    /\ node' = "guard_input"
    /\ path' = <<"guard_input">>
    /\ Len(messages') = Len(messages) + 1
    /\ IsPrefix(messages, messages')
    /\ Last(messages').type = "human"
    /\ safety' = safety

\* C19 as stated: after a turn that ended with "need more steps" the message
\* history, the safety verdict and the counter are all kept, and the next
\* turn starts at guard_input over the history plus the new user message.
C19_Original ==
    [][EndedNeedingSteps => (ResumesOverHistory /\ remaining_steps' = remaining_steps)]_vars

\* C19 amended: after a turn that ended with "need more steps" the message
\* history and the safety verdict are kept and the next turn starts at
\* guard_input over the history plus the new user message; the counter is
\* not kept, the next turn's counter is its own recursion limit.
C19_Resumable ==
    [][EndedNeedingSteps =>
        (/\ ResumesOverHistory
         /\ remaining_steps' = budget'
         /\ remaining_steps' \in 1..MaxLimit)]_vars

C19_Witness ==
    /\ node = "guard_input"
    /\ turn_start = 3
    /\ messages[2].content = NeedMoreSteps
    /\ safety.safety_assessment = SAFE
    /\ remaining_steps = 3

\* C20: turns of distinct sessions that run concurrently do not interfere:
\* under every interleaving, a session that has finished its turns has the
\* messages, the safety verdict and the counter it has when the same turns
\* run one after another, and its checkpoint entry holds that state.
C20_NoInterference ==
    \A s \in SessionIds :
        Final(sessions[s]) =>
            /\ Outcome(sessions[s]) = Outcome(SerialFinal(s))
            /\ store[CheckpointKey(s)] = Checkpoint(SerialFinal(s))

C20_Witness ==
    /\ \A s \in SessionIds : Final(sessions[s]) /\ sessions[s].met
    /\ Len(sessions["a"].messages) >= 6
    /\ sessions["b"].safety.safety_assessment = UNSAFE

\* C21: a verdict of an earlier turn never decides routing in a later turn:
\* the step out of guard_input goes to block_unsafe_content exactly when the
\* verdict guard_input produced in this turn is unsafe, and the stored
\* verdict is then that one, also after a turn that ended unsafe.
C21_FreshVerdictRoutes ==
    Len(path) >= 2 =>
        /\ guard_out \in Verdicts
        /\ path[2] = "block_unsafe_content" <=> guard_out.safety_assessment = UNSAFE
        /\ (Len(path) = 2 /\ node = path[2]) => safety = guard_out

C21_Witness ==
    /\ turn_start = 3
    /\ messages[2].content = FlaggedContent(LlamaGuardOutput(UNSAFE, <<"Violent Crimes">>))
    /\ node = "model"
    /\ Len(path) = 2
    /\ safety.safety_assessment = SAFE

\* C22 as stated: the tools of one assistant message run one at a time: the
\* (i+1)-th requested tool is started only after the i-th has returned.
C22_Original ==
    node = "tools" => \A i \in 1..tool_started - 1 : tool_out[i] # Pending

\* C22 amended: the tools of one assistant message are started in request
\* order and may run at the same time; none returns before it is started,
\* nothing is appended while one is still running, and no appended ToolResult
\* is that of a tool that has not returned.
C22_GatheredDispatch ==
    /\ node = "tools" =>
          /\ \A i \in DOMAIN tool_out : i > tool_started => tool_out[i] = Pending
          /\ Last(messages) = draft
          /\ DOMAIN tool_out = 1..Len(draft.tool_calls)
    /\ \A k \in DOMAIN messages :
          messages[k].type = "tool" => messages[k].content # <<Pending>>

C22_Witness ==
    /\ node = "tools"
    /\ tool_started = 2
    /\ tool_out[1] = Pending
    /\ tool_out[2] # Pending

\* the backend has answered and _handle_response has run on the answer
Handled == tool_run.pc \in {"handler", "format", "returned"} /\ tool_run.handled # NotHandled

\* C23: _handle_response raises ValueError, with the status code in the
\* message, for every response with status >= 400, JSON body or not, and
\* never raises below 400: 204 gives {success, 204}, a JSON body gives the
\* parsed body, a body that is not JSON gives a success dictionary with the
\* status code and the text.
C23_HandleResponse ==
    Handled =>
        LET r == tool_run.api
            h == tool_run.handled
        IN /\ r.status >= 400 =>
                /\ h.kind = "raise"
                /\ h.type = "ValueError"
                /\ h.message.status = r.status
           /\ r.status < 400 => h.kind = "dict"
           /\ r.status = 204 => h.value = [success |-> TRUE, status_code |-> 204]
           /\ (r.status < 400 /\ r.status # 204 /\ r.body.is_json) => h.value = r.body.value
           /\ (r.status < 400 /\ r.status # 204 /\ ~r.body.is_json) =>
                h.value = [success |-> TRUE, status_code |-> r.status, text |-> r.body.text]

C23_Witness ==
    /\ Handled
    /\ tool_run.api.status = 399
    /\ ~tool_run.api.body.is_json
    /\ tool_run.handled.kind = "dict"
    /\ tool_run.pc = "returned"

\* the requests of message k are answered by the messages that follow it,
\* one ToolResult per request, in the order of the requests
Answered(k) ==
    LET requests == messages[k].tool_calls IN
    /\ k + Len(requests) <= Len(messages)
    /\ \A i \in 1..Len(requests) :
          /\ messages[k + i].type = "tool"
          /\ messages[k + i].tool_call_id = requests[i].id

\* C24: at done of every turn no tool-call request is left unanswered: every
\* assistant message of the history that carries requests is followed by one
\* ToolResult per request.
C24_NoDanglingRequest ==
    node = "done" =>
        \A k \in DOMAIN messages :
            (messages[k].type = "ai" /\ messages[k].tool_calls # <<>>) => Answered(k)

C24_Witness ==
    /\ node = "done"
    /\ \E k \in DOMAIN messages : Len(messages[k].tool_calls) = 2 /\ Answered(k)
    /\ Last(messages).content = NeedMoreSteps
    /\ Len(draft.tool_calls) = 1

\* C25: only an unsafe verdict blocks: with any other assessment (safe,
\* error) guard_input is followed by model, and a draft whose Agent check is
\* not unsafe goes to the budget check: it is appended as it is, or replaced
\* by "need more steps" when it requests tools with fewer than 2 steps left.
C25_OnlyUnsafeBlocks ==
    /\ (Len(path) >= 2 /\ guard_out.safety_assessment # UNSAFE) => path[2] = "model"
    /\ (draft # NoDraft /\ agent_out.safety_assessment # UNSAFE) =>
          /\ safety = guard_out
          /\ messages[draft_at + 1] =
                IF draft_steps < 2 /\ draft.tool_calls # <<>>
                THEN AIMessage(draft.id, NeedMoreSteps, <<>>)
                ELSE draft

C25_Witness ==
    /\ node = "done"
    /\ guard_out.safety_assessment = ERROR
    /\ agent_out.safety_assessment = ERROR
    /\ Last(messages) = draft
    /\ ToolRounds = 1

\* C26: the unsafe check comes before the budget check: a draft judged
\* unsafe that requests tools with fewer than 2 steps left is answered with
\* the flagged message, never with "need more steps", the unsafe verdict is
\* stored and tools is not entered.
C26_UnsafeBeforeBudget ==
    (draft # NoDraft /\ agent_out.safety_assessment = UNSAFE
        /\ draft.tool_calls # <<>> /\ draft_steps < 2) =>
        /\ node \in {"done", "out_of_steps"}
        /\ Last(path) = "model"
        /\ Len(messages) = draft_at + 1
        /\ Last(messages).content = FlaggedContent(agent_out)
        /\ Last(messages).content # NeedMoreSteps
        /\ Last(messages).tool_calls = <<>>
        /\ safety = agent_out

C26_Witness ==
    /\ node = "done"
    /\ agent_out.safety_assessment = UNSAFE
    /\ Len(draft.tool_calls) = 2
    /\ draft_steps = 1
    /\ Last(messages).content = FlaggedContent(agent_out)

\* C27: the routing function after model never fails: whenever it runs, the
\* last message is an assistant message (the draft, the flagged message or
\* "need more steps"), so its TypeError branch is never taken.
C27_RoutingNeverFails ==
    /\ node # "TypeError"
    /\ AfterModel =>
          /\ Last(messages).type = "ai"
          /\ pending_tool_calls(messages) \in {"tools", "done"}
          /\ \/ Last(messages) = draft
             \/ Last(messages).content = FlaggedContent(agent_out)
             \/ Last(messages) = AIMessage(draft.id, NeedMoreSteps, <<>>)

C27_Witness ==
    /\ AfterModel
    /\ node = "done"
    /\ ToolRounds = 1
    /\ agent_out.safety_assessment = UNSAFE
    /\ Len(draft.tool_calls) = 1
    /\ messages[Len(messages) - 1].type = "tool"

\* C28: the system instruction is put in front of the model's input on every
\* model call and is never stored: no message of the conversation is a
\* system message, and the Agent-role check gets the stored history and the
\* draft, without the system instruction.
C28_SystemNotStored ==
    /\ \A k \in DOMAIN messages : messages[k].type # "system"
    /\ awaited # NoDraft => model_in = <<SystemMessage(instructions)>> \o messages
    /\ (awaited = NoDraft /\ draft # NoDraft) =>
          model_in = <<SystemMessage(instructions)>> \o SubSeq(messages, 1, draft_at)
    /\ \A k \in 2..Len(model_in) : model_in[k].type # "system"
    /\ draft # NoDraft =>
          /\ agent_in = SubSeq(messages, 1, draft_at) \o <<draft>>
          /\ \A k \in DOMAIN agent_in : agent_in[k].type # "system"

C28_Witness ==
    /\ AfterTools
    /\ ~AfterModel
    /\ Len(model_in) = 2
    /\ Len(agent_in) = 2
    /\ draft.tool_calls # <<>>

\* C29: at done of every turn the stored verdict is unsafe exactly when the
\* last message is the flagged message: the verdict is the one of an unsafe
\* Agent check if there was one, and otherwise the one guard_input wrote.
C29_VerdictMatchesFlag ==
    node = "done" =>
        /\ safety.safety_assessment = UNSAFE <=>
              Last(messages).content = FlaggedContent(safety)
        /\ safety.safety_assessment # UNSAFE => Head(Last(messages).content) # FlaggedPrefix
        /\ safety = IF agent_out.safety_assessment = UNSAFE THEN agent_out ELSE guard_out

C29_Witness ==
    /\ node = "done"
    /\ guard_out.safety_assessment = ERROR
    /\ agent_out = LlamaGuardOutput(UNSAFE, <<"Hate", "Privacy">>)
    /\ safety = agent_out
    /\ Last(messages).content = FlaggedContent(agent_out)

\* C30: the two assistants are the same controller: from the same initial
\* state and with the same classifier verdicts, model drafts and tool
\* results, both graphs visit the same nodes and hold the same messages,
\* verdict and counter.
C30_SameController ==
    sessions[JiraAgent] = sessions[AzureAgent]

C30_Witness ==
    /\ sessions[AzureAgent].node = "done"
    /\ sessions[AzureAgent].visited = <<"guard_input", "model", "tools", "model", "done">>
    /\ Len(sessions[AzureAgent].messages) = 5
    /\ sessions[JiraAgent].messages = sessions[AzureAgent].messages
    /\ sessions[AzureAgent].messages[5].content = NeedMoreSteps
====
